---- MODULE Spec2Model ----
(***************************************************************************)
(* A model of the example scripts of mellea-qai:                           *)
(*   demo_agent.py  the ReACT loop react() and its ReactToolbox            *)
(*   demo.py        write_email                                            *)
(*   demo_mcp.py    the MCP tool write_a_poem and resource get_greeting    *)
(* The mellea session is an external collaborator: m.chat is modelled by   *)
(* what the scripts rely on (it records the request and the response in    *)
(* the chat context and returns the response), m.instruct by the sampling  *)
(* result it hands back.  The responses of the model are inputs.           *)
(***************************************************************************)
EXTENDS Integers, Sequences, FiniteSets, TLC

\* ------------------------------------------------------------------ bounds
MaxTools == 2      \* tools in a toolbox
MaxTurns == 3      \* turns of the ReACT loop the model follows
MaxPrior == 1      \* messages already in the context when react() is entered

\* ------------------------------------------------------- demo_agent.py data
None == "None"

\* The tool functions of the script, by __name__.
Fns == {"zip_lookup_tool_fn", "weather_lookup_fn"}

\* The names given to ReactTool(name=...); a tool may also have name=None.
ToolNames == {"Zip Code Lookup", "Get the weather"}

\* inspect.signature(fn).parameters of each tool function.
Params(fn) == IF fn = "zip_lookup_tool_fn" THEN {"city"} ELSE {"zip_code"}

\* The value each tool function returns.
FnOutput(fn) == IF fn = "zip_lookup_tool_fn" THEN "03285" ELSE "weather report"

ReactTool == [fn : Fns, name : ToolNames \cup {None}]

\* ReactTool.get_name
get_name(tool) == IF tool.name = None THEN tool.fn ELSE tool.name

\* ReactTool.args_schema: one required str field per parameter of fn.
args_schema(tool) == [title |-> tool.fn, fields |-> Params(tool.fn)]

\* Every toolbox of one to MaxTools tools.
Toolboxes == UNION {[1..n -> ReactTool] : n \in 1..MaxTools}

\* ReactToolbox.tool_names
tool_names(tb) == [i \in 1..Len(tb) |-> get_name(tb[i])]

Range(s) == {s[i] : i \in 1..Len(s)}

\* A get_tool_from_name whose loop does not stop at the first match.
LastNamed(tb, name) ==
    IF \E i \in 1..Len(tb) : get_name(tb[i]) = name
    THEN CHOOSE i \in 1..Len(tb) :
            /\ get_name(tb[i]) = name
            /\ \A j \in (i + 1)..Len(tb) : get_name(tb[j]) # name
    ELSE 0

\* ReactToolbox.get_tool_from_name: the first tool of the list with that
\* name, as its position in the list; 0 stands for None.
get_tool_from_name(tb, name) ==
    IF \E i \in 1..Len(tb) : get_name(tb[i]) = name
    THEN CHOOSE i \in 1..Len(tb) :
            /\ get_name(tb[i]) = name
            /\ \A j \in 1..(i - 1) : get_name(tb[j]) # name
    ELSE 0

\* A selection schema whose "tool" field is any string.
AnyToolNameValidates(tb, content) == content.json

\* ReactToolbox.tool_name_schema: {"tool": Literal[*names]}.  A response
\* validates when it is a JSON object whose "tool" is one of the names.
tool_name_schema_validates(tb, content) ==
    content.json /\ content.tool \in Range(tool_names(tb))

\* IsDoneModel.model_validate_json
IsDoneValidates(content) == content.json

\* json.loads of an arguments response succeeds on JSON text only.
JsonLoads(content) == content.json

\* fn(**kwargs): Python raises TypeError unless the keys are the parameters.
CallAccepts(tool, content) == content.json /\ content.keys = Params(tool.fn)

\* The responses the model may give.
SelectionResponses ==
    [json : {TRUE}, tool : ToolNames \cup Fns \cup {"Unknown tool"}]
        \cup {[json |-> FALSE, tool |-> ""]}
ArgsResponses ==
    [json : {TRUE}, keys : {{"city"}, {"zip_code"}, {}}]
        \cup {[json |-> FALSE, keys |-> {}]}
DoneResponses ==
    [json : {TRUE}, is_done : BOOLEAN] \cup {[json |-> FALSE, is_done |-> FALSE]}
Answers == {"answer A", "answer B"}

\* An assertion that only rules out a missing view.
FreshContextNotNone(view) == ~view.is_none

\* react, line 140: test_ctx_lin is not None and len(test_ctx_lin) == 0.
FreshContext(view) == ~view.is_none /\ Len(view.items) = 0

\* A loop condition with a turn limit.
WhileCondLimited(d, n) == ~d /\ n < 2

\* react, line 168: while not done.
WhileCond(d, n) == ~d

\* A done branch that leaves the loop whatever the flag.
DoneBranchAlways(flag) == "final"

\* A done branch that returns without the final-answer request.
DoneBranchNoFinal(flag) == IF flag THEN "returned" ELSE "while"

\* react, lines 213-221: if is_done the final answer is asked for and
\* returned, else the loop goes round.
DoneBranch(flag) == IF flag THEN "final" ELSE "while"

\* A turn that goes from the arguments straight to the done check.
StepAfterSkipsTool(p) ==
    CASE p = "thought" -> "action"
      [] p = "action" -> "args"
      [] p = "args" -> "done_check"
      [] p = "observe" -> "done_check"

\* react, lines 172-212: the order of the steps of a turn.
StepAfter(p) ==
    CASE p = "thought" -> "action"
      [] p = "action" -> "args"
      [] p = "args" -> "observe"
      [] p = "observe" -> "done_check"

Msg(role, content) == [role |-> role, content |-> content]

PriorContexts ==
    UNION {[1..n -> {Msg("user", "earlier")}] : n \in 0..MaxPrior}

VARIABLES
    tools,          \* react_toolbox.tools
    linear,         \* whether m.ctx has a linear view for generation
    ctx,            \* m.ctx, the messages of the session context
    entry_ctx,      \* m.ctx as it was when react() was entered
    pc,             \* the position of react()
    done,           \* react's local done
    turn_num,       \* react's local turn_num
    act,            \* the tool-selection response of the turn
    selected_tool,  \* position in tools of selected_tool, 0 for None
    args_format,    \* the schema sent with the arguments request
    act_args,       \* the arguments response of the turn
    is_done,        \* react's local is_done, the parsed done-check response
    log,            \* what react() has done so far, in order
    err,            \* the exception that ended react(), or None
    result,         \* the value react() returned, or None
    email_pc,        \* the position of write_email
    email_candidate, \* the sampling result m.instruct handed to write_email
    email_ret,       \* the value write_email returned, or None
    printed,         \* the lines write_email printed
    mcp_pc,          \* the position of the MCP entry point being served
    entry,           \* the MCP entry point called, or None
    word_limit,      \* write_a_poem's word_limit
    attempts,        \* the poems generated for this call, in order
    verdicts,        \* wl_req's verdict on each of them
    llm_requests,    \* requests this call made to the LLM library
    mcp_ret          \* the value the entry point returned

reactVars == <<tools, linear, ctx, entry_ctx, pc, done, turn_num, act,
               selected_tool, args_format, act_args, is_done, log, err,
               result>>

emailVars == <<email_pc, email_candidate, email_ret, printed>>

mcpVars == <<mcp_pc, entry, word_limit, attempts, verdicts, llm_requests,
             mcp_ret>>

vars == <<reactVars, emailVars, mcpVars>>

NoAct == [json |-> FALSE, tool |-> ""]
NoArgs == [json |-> FALSE, keys |-> {}]
NoFormat == [title |-> None, fields |-> {}]

\* m.ctx.view_for_generation(): the messages, or None.
view_for_generation ==
    [is_none |-> ~linear, items |-> IF linear THEN ctx ELSE <<>>]

\* The text of a response, as the context keeps it.
SelectionText(content) == IF content.json THEN content.tool ELSE "not json"
ArgsText(content) ==
    IF ~content.json THEN "not json"
    ELSE IF content.keys = {} THEN "{}"
    ELSE IF content.keys = {"city"} THEN "{city}" ELSE "{zip_code}"
DoneText(content) ==
    IF ~content.json THEN "not json"
    ELSE IF content.is_done THEN "is_done: true" ELSE "is_done: false"

NoThunk == [attempt |-> 0, value |-> ""]
NoCandidate == [success |-> FALSE, result |-> NoThunk, sampling_results |-> <<>>]

Event(step) == [step |-> step, turn |-> turn_num]

\* m.chat(prompt): the request, then the response, join the context.
Chat(c, prompt, response) ==
    c \o <<Msg("user", prompt), Msg("assistant", response)>>

ReactStart ==
    /\ tools \in Toolboxes
    /\ linear \in BOOLEAN
    /\ ctx \in PriorContexts
    /\ entry_ctx = ctx
    /\ pc = "entry"
    /\ done = FALSE
    /\ turn_num = 0
    /\ act = NoAct
    /\ selected_tool = 0
    /\ args_format = NoFormat
    /\ act_args = NoArgs
    /\ is_done = FALSE
    /\ log = <<>>
    /\ err = None
    /\ result = None

Raise(e) ==
    /\ pc' = "failed"
    /\ err' = e

\* react, lines 139-167: the fresh-context assertion, the system prompt and
\* the goal, done = False, turn_num = 0.
Enter ==
    /\ pc = "entry"
    /\ IF FreshContext(view_for_generation)
       THEN /\ ctx' = ctx \o <<Msg("system", "react system prompt"),
                               Msg("user", "goal")>>
            /\ log' = log \o <<[step |-> "system", turn |-> 0],
                               [step |-> "goal", turn |-> 0]>>
            /\ pc' = "while"
            /\ err' = err
       ELSE /\ Raise("AssertionError: ReACT expects a fresh context.")
            /\ UNCHANGED <<ctx, log>>
    /\ done' = FALSE
    /\ turn_num' = 0
    /\ UNCHANGED <<tools, linear, entry_ctx, act, selected_tool, args_format,
                   act_args, result>>
    /\ UNCHANGED <<is_done, emailVars, mcpVars>>

\* react, lines 168-170: while not done: turn_num += 1.
LoopHead ==
    /\ pc = "while"
    /\ turn_num < MaxTurns
    /\ IF WhileCond(done, turn_num)
       THEN pc' = "thought" /\ turn_num' = turn_num + 1
       ELSE pc' = "returned" /\ turn_num' = turn_num
    /\ UNCHANGED <<tools, linear, ctx, entry_ctx, done, act, selected_tool,
                   args_format, act_args, log, err, result>>
    /\ UNCHANGED <<is_done, emailVars, mcpVars>>

\* react, lines 172-176: the thought request.
Thought ==
    /\ pc = "thought"
    /\ ctx' = Chat(ctx, "What should you do next?", "thought")
    /\ log' = Append(log, Event("thought"))
    /\ pc' = StepAfter(pc)
    /\ UNCHANGED <<tools, linear, entry_ctx, done, turn_num, act,
                   selected_tool, args_format, act_args, err, result>>
    /\ UNCHANGED <<is_done, emailVars, mcpVars>>

\* react, lines 178-185: the tool-selection request, then
\* get_tool_from_schema on the response.
Action ==
    /\ pc = "action"
    /\ \E content \in SelectionResponses :
        /\ ctx' = Chat(ctx, "Choose your next action.", SelectionText(content))
        /\ log' = Append(log, Event("action"))
        /\ act' = content
        /\ IF ~tool_name_schema_validates(tools, content)
           THEN /\ Raise("ValidationError: ToolSelectionSchema")
                /\ UNCHANGED selected_tool
           ELSE /\ selected_tool' = get_tool_from_name(tools, content.tool)
                /\ IF selected_tool' = 0
                   THEN Raise("AttributeError: NoneType has no get_name")
                   ELSE pc' = StepAfter(pc) /\ err' = err
    /\ UNCHANGED <<tools, linear, entry_ctx, done, turn_num, args_format,
                   act_args, result>>
    /\ UNCHANGED <<is_done, emailVars, mcpVars>>

\* react, lines 190-195: the arguments request with the selected tool's
\* schema, then json.loads of the response.
Args ==
    /\ pc = "args"
    /\ \E content \in ArgsResponses :
        /\ args_format' = args_schema(tools[selected_tool])
        /\ ctx' = Chat(ctx, "Choose arguments for the tool.", ArgsText(content))
        /\ log' = Append(log, Event("args"))
        /\ act_args' = content
        /\ IF JsonLoads(content)
           THEN pc' = StepAfter(pc) /\ err' = err
           ELSE Raise("JSONDecodeError")
    /\ UNCHANGED <<tools, linear, entry_ctx, done, turn_num, act,
                   selected_tool, result>>
    /\ UNCHANGED <<is_done, emailVars, mcpVars>>

\* react, lines 197-202, and ReactToolbox.call_tool: call the tool, then
\* add its output to the context as a "tool" message.
Observe ==
    /\ pc = "observe"
    /\ IF CallAccepts(tools[selected_tool], act_args)
       THEN /\ ctx' = Append(ctx, Msg("tool", FnOutput(tools[selected_tool].fn)))
            /\ log' = log \o <<Event("call"), Event("tool_msg")>>
            /\ pc' = StepAfter(pc)
            /\ err' = err
       ELSE /\ Raise("TypeError: tool call")
            /\ log' = Append(log, Event("call_raised"))
            /\ ctx' = ctx
    /\ UNCHANGED <<tools, linear, entry_ctx, done, turn_num, act,
                   selected_tool, args_format, act_args, result>>
    /\ UNCHANGED <<is_done, emailVars, mcpVars>>

\* react, lines 203-215 and 219-221: the done-check request, IsDoneModel
\* validation, and the branch on is_done.
DoneCheck ==
    /\ pc = "done_check"
    /\ \E content \in DoneResponses :
        /\ ctx' = Chat(ctx, "Do you have the FINAL ANSWER?", DoneText(content))
        /\ log' = Append(log, Event("done_check"))
        /\ IF ~IsDoneValidates(content)
           THEN /\ Raise("ValidationError: IsDoneModel")
                /\ UNCHANGED <<done, is_done>>
           ELSE /\ is_done' = content.is_done
                /\ done' = content.is_done
                /\ pc' = DoneBranch(content.is_done)
                /\ err' = err
    /\ UNCHANGED <<tools, linear, entry_ctx, turn_num, act, selected_tool,
                   args_format, act_args, result>>
    /\ UNCHANGED <<emailVars, mcpVars>>

\* react, lines 216-218: the final-answer request; its content is returned.
Final ==
    /\ pc = "final"
    /\ \E answer \in Answers :
        /\ ctx' = Chat(ctx, "Please provide your final answer.", answer)
        /\ result' = answer
    /\ log' = Append(log, Event("final"))
    /\ pc' = "returned"
    /\ UNCHANGED <<tools, linear, entry_ctx, done, turn_num, act,
                   selected_tool, args_format, act_args, err>>
    /\ UNCHANGED <<is_done, emailVars, mcpVars>>

EmailIdle ==
    /\ email_pc = "idle"
    /\ email_candidate = NoCandidate
    /\ email_ret = None
    /\ printed = <<>>

McpIdle ==
    /\ mcp_pc = "off"
    /\ entry = None
    /\ word_limit = 0
    /\ attempts = <<>>
    /\ verdicts = <<>>
    /\ llm_requests = 0
    /\ mcp_ret = <<>>

InitReact == ReactStart /\ EmailIdle /\ McpIdle

Next ==
    \/ Enter
    \/ LoopHead
    \/ Thought
    \/ Action
    \/ Args
    \/ Observe
    \/ DoneCheck
    \/ Final

Spec == InitReact /\ [][Next]_vars

\* ------------------------------------------------------------------ demo.py
\* RejectionSamplingStrategy(loop_budget = 5) in write_email.
EmailLoopBudget == 5

EmailTexts == {"draft x", "draft y"}

FallbackMessage == "Expect sub-par output due to failure to meet requirements."

\* str(thunk) of a model output is its value.
Str(thunk) == thunk.value

\* A fallback that returns the attempt the library selected.
FailureValueSelected(c) == Str(c.result)

\* write_email, line 25: email_candidate.sampling_results[0].value.
FailureValue(c) == c.sampling_results[1].value

\* The sampling results m.instruct(..., return_sampling_results = True) can
\* hand back: the attempts in order, the selected one, and the success flag.
\* A success ends the sampling at the attempt that met the requirements; a
\* failure has used the whole budget, and the library selects any attempt.
SamplingResults ==
    UNION {
        { [success |-> ok,
           sampling_results |-> [i \in 1..n |-> [attempt |-> i, value |-> texts[i]]],
           result |-> [attempt |-> k, value |-> texts[k]]] :
              texts \in [1..n -> EmailTexts],
              k \in IF ok THEN {n} ELSE 1..n }
        : <<n, ok>> \in {<<m, b>> \in (1..EmailLoopBudget) \X BOOLEAN :
                            b \/ m = EmailLoopBudget} }

ReactIdle ==
    /\ tools = <<>>
    /\ linear = TRUE
    /\ ctx = <<>>
    /\ entry_ctx = <<>>
    /\ pc = "off"
    /\ done = FALSE
    /\ turn_num = 0
    /\ act = NoAct
    /\ selected_tool = 0
    /\ args_format = NoFormat
    /\ act_args = NoArgs
    /\ is_done = FALSE
    /\ log = <<>>
    /\ err = None
    /\ result = None

EmailStart ==
    /\ email_pc = "instruct"
    /\ email_candidate = NoCandidate
    /\ email_ret = None
    /\ printed = <<>>

\* write_email, lines 14-20: m.instruct hands back the sampling result.
Instruct ==
    /\ email_pc = "instruct"
    /\ email_candidate' \in SamplingResults
    /\ email_pc' = "branch"
    /\ UNCHANGED <<email_ret, printed>>
    /\ UNCHANGED <<reactVars, mcpVars>>

\* write_email, lines 21-25: the branch on the success flag.
WriteEmailReturn ==
    /\ email_pc = "branch"
    /\ IF email_candidate.success
       THEN /\ email_ret' = Str(email_candidate.result)
            /\ printed' = printed
       ELSE /\ printed' = Append(printed, FallbackMessage)
            /\ email_ret' = FailureValue(email_candidate)
    /\ email_pc' = "returned"
    /\ UNCHANGED email_candidate
    /\ UNCHANGED <<reactVars, mcpVars>>

InitEmail == ReactIdle /\ EmailStart /\ McpIdle

NextEmail ==
    \/ Instruct
    \/ WriteEmailReturn

SpecEmail == InitEmail /\ [][NextEmail]_vars

\* -------------------------------------------------------------- demo_mcp.py
MaxWordLimit == 3  \* the largest word_limit a client passes
MaxPoemLen == 4    \* characters of a generated poem

\* RejectionSamplingStrategy(loop_budget=2) in write_a_poem.
PoemLoopBudget == 2

PoemChars == {"a", " "}

Poems == UNION {[1..n -> PoemChars] : n \in 0..MaxPoemLen}

GreetNames == {"Ada", "Bob"}

\* Python's x.split(" "): cut at every single space, empty pieces kept.
RECURSIVE split(_)
split(x) ==
    IF \A i \in 1..Len(x) : x[i] # " "
    THEN <<x>>
    ELSE LET i == CHOOSE k \in 1..Len(x) :
                     x[k] = " " /\ \A j \in 1..(k - 1) : x[j] # " "
         IN  <<SubSeq(x, 1, i - 1)>> \o split(SubSeq(x, i + 1, Len(x)))

\* wl_req's validation_fn: lambda x: len(x.split(" ")) < word_limit.
wl_req(x, limit) == Len(split(x)) < limit

\* get_greeting's f"Hello, {name}!".
Greeting(name) == <<"Hello, ", name, "!">>

McpStart ==
    /\ mcp_pc = "idle"
    /\ entry = None
    /\ word_limit = 0
    /\ attempts = <<>>
    /\ verdicts = <<>>
    /\ llm_requests = 0
    /\ mcp_ret = <<>>

\* A client calls the tool write_a_poem(word_limit): lines 26-37.
CallWriteAPoem ==
    /\ mcp_pc = "idle"
    /\ entry' = "write_a_poem"
    /\ word_limit' \in 0..MaxWordLimit
    /\ mcp_pc' = "instruct"
    /\ UNCHANGED <<attempts, verdicts, llm_requests, mcp_ret>>
    /\ UNCHANGED <<reactVars, emailVars>>

\* write_a_poem, lines 39-45: m.instruct under rejection sampling.  Each
\* attempt is one request to the model, validated by wl_req; the call
\* returns the first poem that validates, or one of the attempts once the
\* budget is used.
PoemAttempt ==
    /\ mcp_pc = "instruct"
    /\ Len(attempts) < PoemLoopBudget
    /\ \E poem \in Poems :
        /\ llm_requests' = llm_requests + 1
        /\ attempts' = Append(attempts, poem)
        /\ verdicts' = Append(verdicts, wl_req(poem, word_limit))
        /\ IF wl_req(poem, word_limit)
           THEN mcp_pc' = "returned" /\ mcp_ret' = poem
           ELSE IF Len(attempts') = PoemLoopBudget
                THEN /\ mcp_pc' = "returned"
                     /\ \E k \in 1..Len(attempts') : mcp_ret' = attempts'[k]
                ELSE UNCHANGED <<mcp_pc, mcp_ret>>
    /\ UNCHANGED <<entry, word_limit>>
    /\ UNCHANGED <<reactVars, emailVars>>

\* A get_greeting that asks the model for the greeting.
get_greeting_via_llm ==
    /\ mcp_pc = "idle"
    /\ entry' = "get_greeting"
    /\ \E name \in GreetNames : mcp_ret' = Greeting(name)
    /\ llm_requests' = llm_requests + 1
    /\ mcp_pc' = "returned"
    /\ UNCHANGED <<word_limit, attempts, verdicts>>
    /\ UNCHANGED <<reactVars, emailVars>>

\* A client reads the resource greeting://{name}: lines 48-51.
get_greeting ==
    /\ mcp_pc = "idle"
    /\ entry' = "get_greeting"
    /\ \E name \in GreetNames : mcp_ret' = Greeting(name)
    /\ mcp_pc' = "returned"
    /\ UNCHANGED <<word_limit, attempts, verdicts, llm_requests>>
    /\ UNCHANGED <<reactVars, emailVars>>

InitMcp == ReactIdle /\ EmailIdle /\ McpStart

NextMcp ==
    \/ CallWriteAPoem
    \/ PoemAttempt
    \/ get_greeting

SpecMcp == InitMcp /\ [][NextMcp]_vars

\* ------------------------------------------------------------------ claims
CountIf(seq, Test(_)) == Cardinality({i \in 1..Len(seq) : Test(seq[i])})

IsToolMsg(msg) == msg.role = "tool"
IsNotDoneAnswer(msg) == msg.role = "assistant" /\ msg.content = "is_done: false"
IsDoneAnswer(msg) == msg.role = "assistant" /\ msg.content = "is_done: true"
IsRequest(msg) == msg.role = "user" /\ msg.content # "goal"
IsCall(e) == e.step = "call"
IsToolMsgEvent(e) == e.step = "tool_msg"

ChatSteps == {"thought", "action", "args", "done_check", "final"}

\* The chat requests react() sent in turn k, in order.
ChatsOfTurn(k) ==
    SelectSeq(log, LAMBDA e : e.turn = k /\ e.step \in ChatSteps)

StepsOf(events) == [i \in 1..Len(events) |-> events[i].step]

InLoop == pc \in {"while", "thought", "action", "args", "observe",
                  "done_check", "final", "returned"}

\* C1: react() leaves the loop by returning exactly when the done check of
\* the turn answered is_done = true: a done check answered true is followed
\* by the final answer and the return, one answered false by the loop head,
\* and the loop head always starts the next turn, whatever turn_num is.
C1_ReturnsIffDone ==
    /\ [](pc \in {"final", "returned"} =>
            /\ is_done /\ done
            /\ \E i \in 1..Len(ctx) :
                /\ IsDoneAnswer(ctx[i])
                /\ \A j \in (i + 1)..Len(ctx) : ctx[j].role # "tool")
    /\ [](pc = "while" /\ turn_num >= 1 =>
            /\ ~is_done /\ ~done
            /\ IsNotDoneAnswer(ctx[Len(ctx)]))
    /\ [][pc = "done_check" /\ pc' # "failed" =>
            /\ IsDoneAnswer(ctx'[Len(ctx')]) => pc' = "final"
            /\ IsNotDoneAnswer(ctx'[Len(ctx')]) => pc' = "while"]_vars
    /\ [][pc = "while" => pc' = "thought" /\ turn_num' = turn_num + 1]_vars
    /\ [][pc = "final" => pc' = "returned"]_vars

\* react() returned in the last turn the model follows, after answering
\* is_done = false in every turn before it.
C1_Witness ==
    /\ pc = "returned"
    /\ turn_num = MaxTurns
    /\ CountIf(ctx, IsNotDoneAnswer) = MaxTurns - 1

\* C2 as stated: some constant N bounds the number of turns.
C2_FixedBound == \E N \in 0..(MaxTurns - 1) : turn_num <= N

\* C2, amended: the number of turns is decided by the model's answers
\* alone.  While react() runs, turn_num is one more than the number of done
\* checks answered is_done = false (exactly that number at the loop head),
\* and react() stops only by returning after is_done = true or by an error.
C2_NoTurnLimit ==
    /\ pc \in {"thought", "action", "args", "observe", "done_check"}
        => turn_num = CountIf(ctx, IsNotDoneAnswer) + 1
    /\ pc = "while" => turn_num = CountIf(ctx, IsNotDoneAnswer)
    /\ pc \in {"final", "returned"} =>
        /\ turn_num = CountIf(ctx, IsNotDoneAnswer) + 1
        /\ CountIf(ctx, IsDoneAnswer) = 1
    /\ pc = "failed" => err # None
    /\ pc # "failed" => err = None

\* The model answered is_done = false MaxTurns - 1 times and react() is in
\* turn MaxTurns.
C2_Witness ==
    /\ pc = "done_check"
    /\ turn_num = MaxTurns
    /\ CountIf(ctx, IsNotDoneAnswer) = MaxTurns - 1

TurnSteps ==
    <<"thought", "action", "args", "call", "tool_msg", "done_check">>

\* C3: the system prompt and then the goal open the context, once; after
\* them the log is turn after turn of thought, tool selection, arguments,
\* tool call, "tool" message, done check, in that order; the tool is called
\* once per completed turn, every "tool" message follows the arguments
\* response and precedes the done-check request, and there are as many
\* "tool" messages as completed tool calls.
C3_StepOrder ==
    /\ InLoop =>
        /\ Len(ctx) >= 2
        /\ ctx[1] = Msg("system", "react system prompt")
        /\ ctx[2] = Msg("user", "goal")
        /\ \A i \in 3..Len(ctx) : ctx[i].role # "system" /\ ctx[i] # ctx[2]
        /\ Len(log) >= 2
    /\ \A i \in 1..Len(log) :
        IF i <= 2
        THEN log[i] = [step |-> IF i = 1 THEN "system" ELSE "goal", turn |-> 0]
        ELSE LET k == ((i - 3) \div 6) + 1
                 j == ((i - 3) % 6) + 1
             IN  \/ log[i] = [step |-> TurnSteps[j], turn |-> k]
                 \/ /\ i = Len(log) /\ j = 1 /\ pc = "returned"
                    /\ log[i] = [step |-> "final", turn |-> k - 1]
                 \/ /\ i = Len(log) /\ j = 4 /\ pc = "failed"
                    /\ log[i] = [step |-> "call_raised", turn |-> k]
    /\ \A k \in 1..turn_num :
        (\E i \in 1..Len(log) : log[i] = [step |-> "done_check", turn |-> k])
            => Cardinality({i \in 1..Len(log) :
                              log[i] = [step |-> "call", turn |-> k]}) = 1
    /\ CountIf(ctx, IsToolMsg) = CountIf(log, IsCall)
    /\ CountIf(ctx, IsToolMsg) = CountIf(log, IsToolMsgEvent)
    /\ \A i \in 1..Len(ctx) :
        IsToolMsg(ctx[i]) =>
            /\ i > 4
            /\ ctx[i - 1].role = "assistant"
            /\ ctx[i - 2] = Msg("user", "Choose arguments for the tool.")
            /\ ctx[i - 4] = Msg("user", "Choose your next action.")
            /\ i < Len(ctx) =>
                ctx[i + 1] = Msg("user", "Do you have the FINAL ANSWER?")

\* Two turns ran in full and react() returned.
C3_Witness ==
    /\ pc = "returned"
    /\ turn_num >= 2
    /\ CountIf(ctx, IsToolMsg) = turn_num

SelectionError == "ValidationError: ToolSelectionSchema"
ArgsError == "JSONDecodeError"
ToolError == "TypeError: tool call"
DoneError == "ValidationError: IsDoneModel"

EventsOfTurn(k, step) ==
    Cardinality({i \in 1..Len(log) : log[i] = [step |-> step, turn |-> k]})

LastEvent == log[Len(log)]

\* C7: a selection response outside the tool-name schema, an arguments
\* response that is not JSON, a tool call that raises and a done-check
\* response that is not an IsDoneModel each end react() with that error in
\* the turn they happen in: the failed step was run once, no later step of
\* the turn ran, nothing runs afterwards, and for the first three no "tool"
\* message was added in that turn.
C7_FailuresPropagate ==
    /\ [][pc = "action" /\ ~(act'.json /\ act'.tool \in Range(tool_names(tools)))
            => pc' = "failed" /\ err' = SelectionError]_vars
    /\ [][pc = "args" /\ ~act_args'.json
            => pc' = "failed" /\ err' = ArgsError]_vars
    /\ [][pc = "observe" /\ act_args.keys # Params(tools[selected_tool].fn)
            => pc' = "failed" /\ err' = ToolError]_vars
    /\ [][pc = "done_check" /\ ctx'[Len(ctx')].content = "not json"
            => pc' = "failed" /\ err' = DoneError]_vars
    /\ [][pc' = "failed" => turn_num' = turn_num /\ result' = None]_vars
    /\ [][pc # "failed"]_vars
    /\ [](pc = "failed" /\ err = SelectionError =>
            /\ LastEvent = [step |-> "action", turn |-> turn_num]
            /\ EventsOfTurn(turn_num, "action") = 1
            /\ CountIf(ctx, IsToolMsg) = turn_num - 1)
    /\ [](pc = "failed" /\ err = ArgsError =>
            /\ LastEvent = [step |-> "args", turn |-> turn_num]
            /\ EventsOfTurn(turn_num, "args") = 1
            /\ CountIf(ctx, IsToolMsg) = turn_num - 1)
    /\ [](pc = "failed" /\ err = ToolError =>
            /\ LastEvent = [step |-> "call_raised", turn |-> turn_num]
            /\ EventsOfTurn(turn_num, "call_raised") = 1
            /\ EventsOfTurn(turn_num, "call") = 0
            /\ CountIf(ctx, IsToolMsg) = turn_num - 1)
    /\ [](pc = "failed" /\ err = DoneError =>
            /\ LastEvent = [step |-> "done_check", turn |-> turn_num]
            /\ EventsOfTurn(turn_num, "done_check") = 1
            /\ CountIf(ctx, IsToolMsg) = turn_num)

\* react() failed in its second turn on a tool name outside the toolbox.
C7_Witness ==
    /\ pc = "failed"
    /\ err = SelectionError
    /\ turn_num = 2
    /\ act.json
    /\ act.tool = "Unknown tool"

\* C8: entered with a missing view or with messages in the context, react()
\* fails the fresh-context assertion with the context as it found it and
\* nothing sent or called; entered with an empty view it passes the
\* assertion and starts the loop.
C8_FreshContext ==
    /\ (~linear \/ Len(entry_ctx) > 0) /\ pc # "entry" =>
        /\ pc = "failed"
        /\ err = "AssertionError: ReACT expects a fresh context."
        /\ ctx = entry_ctx
        /\ log = <<>>
        /\ turn_num = 0
    /\ (linear /\ Len(entry_ctx) = 0) /\ pc # "entry" =>
        /\ err # "AssertionError: ReACT expects a fresh context."
        /\ Len(log) >= 2
        /\ Len(ctx) >= 2

\* react() met a context that already held a message.
C8_Witness ==
    /\ pc = "failed"
    /\ linear
    /\ Len(entry_ctx) > 0
    /\ ctx = entry_ctx

Selected ==
    pc \in {"args", "observe", "done_check", "while", "final", "returned"}
        \/ (pc = "failed" /\ err \in {ArgsError, ToolError, DoneError})

\* C9: once a turn has selected its tool, the selected tool is a tool of the
\* toolbox, the first in list order whose name is the one the selection
\* response gave; the arguments schema sent is that tool's schema and the
\* "tool" message holds that tool's output.  The schema accepts exactly the
\* names of tool_names(), and get_tool_from_name gives None only for a name
\* no tool has.
C9_SelectedTool ==
    /\ Selected /\ turn_num >= 1 =>
        /\ selected_tool \in 1..Len(tools)
        /\ act.json
        /\ get_name(tools[selected_tool]) = act.tool
        /\ \A j \in 1..(selected_tool - 1) : get_name(tools[j]) # act.tool
    /\ Selected /\ turn_num >= 1 /\ pc # "args" =>
        args_format = [title |-> tools[selected_tool].fn,
                       fields |-> Params(tools[selected_tool].fn)]
    /\ pc = "done_check" =>
        ctx[Len(ctx)] = Msg("tool", FnOutput(tools[selected_tool].fn))
    /\ \A content \in SelectionResponses :
        tool_name_schema_validates(tools, content)
            <=> (content.json /\ \E i \in 1..Len(tools) :
                                    get_name(tools[i]) = content.tool)
    /\ \A name \in ToolNames \cup Fns \cup {"Unknown tool"} :
        /\ get_tool_from_name(tools, name) = 0
             <=> \A i \in 1..Len(tools) : get_name(tools[i]) # name
        /\ get_tool_from_name(tools, name) # 0 =>
             /\ get_name(tools[get_tool_from_name(tools, name)]) = name
             /\ \A j \in 1..(get_tool_from_name(tools, name) - 1) :
                    get_name(tools[j]) # name

\* Two tools with different functions share a name, and the first was called.
C9_Witness ==
    /\ pc = "done_check"
    /\ Len(tools) >= 2
    /\ get_name(tools[1]) = get_name(tools[2])
    /\ tools[1].fn # tools[2].fn
    /\ selected_tool = 1

\* C5: write_email returns str(result) and prints nothing when success is
\* true; when it is false it prints the fallback message once and returns
\* the value of the first sampling attempt.
C5_WriteEmail ==
    email_pc = "returned" =>
        IF email_candidate.success
        THEN /\ email_ret = email_candidate.result.value
             /\ printed = <<>>
        ELSE /\ printed = <<FallbackMessage>>
             /\ email_ret = email_candidate.sampling_results[1].value

\* The sampling failed and the library selected a later attempt whose value
\* differs from the first one's, which write_email returned.
C5_Witness ==
    /\ email_pc = "returned"
    /\ ~email_candidate.success
    /\ email_candidate.result.attempt > 1
    /\ email_candidate.result.value # email_candidate.sampling_results[1].value
    /\ email_ret = email_candidate.sampling_results[1].value

\* C6 as stated: whichever MCP entry point returned, it made at least one
\* request to the LLM library.
C6_BothDelegate == mcp_pc = "returned" => llm_requests >= 1

\* C6, amended: write_a_poem makes at least one request to the LLM library
\* (at most its loop budget of two) before it returns one of the poems
\* generated; get_greeting makes none and returns "Hello, {name}!".
C6_OnlyPoemDelegates ==
    /\ mcp_pc = "returned" /\ entry = "write_a_poem" =>
        /\ llm_requests \in 1..2
        /\ llm_requests = Len(attempts)
        /\ \E k \in 1..Len(attempts) : mcp_ret = attempts[k]
    /\ mcp_pc = "returned" /\ entry = "get_greeting" =>
        /\ llm_requests = 0
        /\ \E name \in GreetNames : mcp_ret = <<"Hello, ", name, "!">>

\* get_greeting returned its string with no request made.
C6_Witness ==
    /\ mcp_pc = "returned"
    /\ entry = "get_greeting"
    /\ llm_requests = 0
    /\ mcp_ret = <<"Hello, ", "Ada", "!">>

\* The number of pieces of x cut at single spaces: one more than its spaces.
Pieces(x) == Cardinality({i \in 1..Len(x) : x[i] = " "}) + 1

\* C10 as stated: for word_limit >= 1 the requirement validates a poem
\* exactly when it has no more than word_limit pieces.
C10_AtMostWordLimit ==
    word_limit >= 1 =>
        \A i \in 1..Len(attempts) :
            verdicts[i] <=> Pieces(attempts[i]) <= word_limit

====
